---- MODULE Spec2Model ----
(***************************************************************************)
(* Model of update-json-translations.py: the script that regenerates the   *)
(* WordPress JSON translation files of the autoblogger plugin.             *)
(*                                                                         *)
(* Text is modelled as a sequence of one-character strings, so that the    *)
(* regular expression, str.strip, slicing and JSON escaping are computed   *)
(* character by character as the Python code computes them.  A file is a   *)
(* record [exists, content]; the languages/ directory is a function from   *)
(* basenames to file contents (the .po source is kept in its own variable  *)
(* but takes part in the glob of the clean-up under its basename).         *)
(* Directory entries are regular files the process may read, write and     *)
(* unlink; I/O errors other than a missing file are outside the model.     *)
(***************************************************************************)
EXTENDS Integers, Sequences, FiniteSets, TLC

(***************************************************************************)
(* Bounds of the model.                                                    *)
(***************************************************************************)
\* longest generated hexadecimal version token (the code truncates at 32)
MaxTokenLen == 34
\* longest generated translation source, in lines
MaxPoLines == 4
\* number of consecutive runs of the script against the same files
MaxRuns == 2

(***************************************************************************)
(* Generic text helpers (Python str operations).                           *)
(***************************************************************************)
Min(a, b) == IF a < b THEN a ELSE b

\* s[:n]
Take(s, n) == SubSeq(s, 1, Min(n, Len(s)))

\* s[n:]
Drop(s, n) == SubSeq(s, n + 1, Len(s))

\* s.startswith(p)
StartsWith(s, p) == Len(s) >= Len(p) /\ SubSeq(s, 1, Len(p)) = p

\* s.endswith(p)
EndsWith(s, p) == Len(s) >= Len(p) /\ SubSeq(s, Len(s) - Len(p) + 1, Len(s)) = p

RECURSIVE LStrip(_, _)
LStrip(s, chars) ==
    IF s # <<>> /\ Head(s) \in chars THEN LStrip(Tail(s), chars) ELSE s

RECURSIVE RStrip(_, _)
RStrip(s, chars) ==
    IF s # <<>> /\ s[Len(s)] \in chars
    THEN RStrip(SubSeq(s, 1, Len(s) - 1), chars) ELSE s

\* s.strip(chars): every leading and every trailing character in chars
Strip(s, chars) == RStrip(LStrip(s, chars), chars)

\* characters removed by str.strip() without arguments
Whitespace == {" ", "\t", "\n", "\r"}

\* characters removed by .strip('"')
QuoteChars == {"\""}

RECURSIVE Concat(_)
Concat(ss) == IF ss = <<>> THEN <<>> ELSE Head(ss) \o Concat(Tail(ss))

Range(s) == {s[i] : i \in 1..Len(s)}

(***************************************************************************)
(* Hash extractor: re.search(r"'version' => '([a-f0-9]+)'", content) and   *)
(* match.group(1)[:32].                                                    *)
(***************************************************************************)
\* HexChars with the class [a-z0-9]
HexCharsWide ==
    {"a", "b", "c", "d", "e", "f", "g", "h", "i", "j", "k", "l", "m",
     "n", "o", "p", "q", "r", "s", "t", "u", "v", "w", "x", "y", "z",
     "0", "1", "2", "3", "4", "5", "6", "7", "8", "9"}

\* the character class [a-f0-9]
HexChars == {"a", "b", "c", "d", "e", "f",
             "0", "1", "2", "3", "4", "5", "6", "7", "8", "9"}

\* the literal prefix of the pattern: 'version' => '
VersionKey == <<"'", "v", "e", "r", "s", "i", "o", "n", "'", " ", "=", ">", " ", "'">>

\* number of characters of the hash that are kept
HashLen == 32

\* length of the longest run of [a-f0-9] starting at position j
RECURSIVE HexRun(_, _)
HexRun(content, j) ==
    IF j <= Len(content) /\ content[j] \in HexChars
    THEN 1 + HexRun(content, j + 1) ELSE 0

\* the pattern matches at position i: the literal prefix, one or more hex
\* characters (greedy; a shorter run is followed by a hex character, never by
\* the closing quote, so backtracking finds nothing else), the closing quote
MatchAt(content, i) ==
    LET j == i + Len(VersionKey)
        r == HexRun(content, j)
    IN  /\ j - 1 <= Len(content)
        /\ SubSeq(content, i, j - 1) = VersionKey
        /\ r >= 1
        /\ j + r <= Len(content)
        /\ content[j + r] = "'"

\* positions where re.search can match
MatchPositions(content) == {i \in 1..Len(content) : MatchAt(content, i)}

\* re.search(...) is not None
HasVersion(content) == MatchPositions(content) # {}

\* match.group(1) of the leftmost match
VersionToken(content) ==
    LET i == CHOOSE p \in MatchPositions(content) :
                 \A q \in MatchPositions(content) : p <= q
        j == i + Len(VersionKey)
    IN  SubSeq(content, j, j + HexRun(content, j) - 1)

\* ExtractHash without the truncation
ExtractHashWhole(content) == VersionToken(content)

\* match.group(1)[:32]
ExtractHash(content) == Take(VersionToken(content), HashLen)

(***************************************************************************)
(* Translation parser: the loop over the lines of the .po file.            *)
(***************************************************************************)
\* 'msgid '
MsgidMarker == <<"m", "s", "g", "i", "d", " ">>

\* 'msgstr '
MsgstrMarker == <<"m", "s", "g", "s", "t", "r", " ">>

\* dict keys, in insertion order (a dict is a sequence of <<key, value>>)
Keys(d) == {d[i][1] : i \in 1..Len(d)}

\* d[k] for a key of d
Lookup(d, k) == d[CHOOSE i \in 1..Len(d) : d[i][1] = k][2]

\* d[k] = v: an existing key keeps its position, a new key goes last
DictSet(d, k, v) ==
    IF k \in Keys(d)
    THEN [i \in 1..Len(d) |-> IF d[i][1] = k THEN <<k, v>> ELSE d[i]]
    ELSE Append(d, <<k, v>>)

\* Flush with the test: if current_msgid
FlushAny(tbl, msgid, msgstr) ==
    IF msgid # <<>> THEN DictSet(tbl, msgid, msgstr) ELSE tbl

\* if current_msgid and current_msgstr: translations[current_msgid] = current_msgstr
Flush(tbl, msgid, msgstr) ==
    IF msgid # <<>> /\ msgstr # <<>> THEN DictSet(tbl, msgid, msgstr) ELSE tbl

\* the branch taken for a stripped line
LineKind(line) ==
    IF StartsWith(line, MsgidMarker) THEN "msgid"
    ELSE IF StartsWith(line, MsgstrMarker) THEN "msgstr"
    ELSE IF line # <<>> /\ line[1] = "\"" THEN "continuation"
    ELSE IF line = <<>> THEN "blank"
    ELSE "other"

\* branch: line.startswith('msgid ')
OnMsgid(st, line) ==
    [translations   |-> Flush(st.translations, st.current_msgid, st.current_msgstr),
     current_msgid  |-> Strip(Drop(line, Len(MsgidMarker)), QuoteChars),
     current_msgstr |-> <<>>,
     in_msgid       |-> TRUE,
     in_msgstr      |-> FALSE]

\* branch: line.startswith('msgstr ')
OnMsgstr(st, line) ==
    [st EXCEPT !.current_msgstr = Strip(Drop(line, Len(MsgstrMarker)), QuoteChars),
               !.in_msgid = FALSE,
               !.in_msgstr = TRUE]

\* OnContinuation with the key as the default accumulator
OnContinuationIdle(st, line) ==
    LET value == Strip(line, QuoteChars)
    IN  IF st.in_msgstr
        THEN [st EXCEPT !.current_msgstr = st.current_msgstr \o value]
        ELSE [st EXCEPT !.current_msgid = st.current_msgid \o value]

\* branch: line and line[0] == '"'
OnContinuation(st, line) ==
    LET value == Strip(line, QuoteChars)
    IN  IF st.in_msgid
        THEN [st EXCEPT !.current_msgid = st.current_msgid \o value]
        ELSE IF st.in_msgstr
        THEN [st EXCEPT !.current_msgstr = st.current_msgstr \o value]
        ELSE st

\* branch: not line
OnBlank(st) ==
    [translations   |-> Flush(st.translations, st.current_msgid, st.current_msgstr),
     current_msgid  |-> <<>>,
     current_msgstr |-> <<>>,
     in_msgid       |-> FALSE,
     in_msgstr      |-> FALSE]

\* one iteration of the loop body on a raw line of the file
ParseStep(st, raw) ==
    LET line == Strip(raw, Whitespace)
        kind == LineKind(line)
    IN  IF kind = "msgid" THEN OnMsgid(st, line)
        ELSE IF kind = "msgstr" THEN OnMsgstr(st, line)
        ELSE IF kind = "continuation" THEN OnContinuation(st, line)
        ELSE IF kind = "blank" THEN OnBlank(st)
        ELSE st

\* translations = {k: v for k, v in translations.items() if v}
IsTranslated(kv) == kv[2] # <<>>

RemoveEmpty(tbl) == SelectSeq(tbl, IsTranslated)

(***************************************************************************)
(* JSON emitter: json_data and json.dump(..., ensure_ascii=False).         *)
(***************************************************************************)
\* the text domain
Domain == "autoblogger"

\* the locale
Lang == "vi_VN"

\* the document; the metadata entry sits under the key '' of the same dict
\* as the translations, whose keys are never empty
MakeJsonData(tbl) ==
    [domain |-> Domain,
     meta   |-> [domain |-> Domain, lang |-> Lang],
     table  |-> tbl]

\* what the JSON encoder writes for one character of a string
EscapeChar(c) ==
    IF c = "\"" THEN <<"\\", "\"">>
    ELSE IF c = "\\" THEN <<"\\", "\\">>
    ELSE IF c = "\n" THEN <<"\\", "n">>
    ELSE IF c = "\r" THEN <<"\\", "r">>
    ELSE IF c = "\t" THEN <<"\\", "t">>
    ELSE <<c>>

\* the body of a JSON string literal; non-ASCII characters are kept as they are
JsonEscape(s) == Concat([i \in 1..Len(s) |-> EscapeChar(s[i])])

\* what a JSON reader makes of the escape sequence backslash c
UnescapeChar(c) ==
    IF c = "n" THEN "\n"
    ELSE IF c = "r" THEN "\r"
    ELSE IF c = "t" THEN "\t"
    ELSE c

RECURSIVE JsonUnescape(_)
JsonUnescape(s) ==
    IF s = <<>> THEN <<>>
    ELSE IF Head(s) = "\\" /\ Len(s) >= 2
    THEN <<UnescapeChar(s[2])>> \o JsonUnescape(Drop(s, 2))
    ELSE <<Head(s)>> \o JsonUnescape(Tail(s))

\* the bytes of the written file: the members of the document in order, each
\* string in its escaped form
JsonDump(data) ==
    [domain |-> data.domain,
     meta   |-> data.meta,
     table  |-> [i \in 1..Len(data.table) |->
                    <<JsonEscape(data.table[i][1]), JsonEscape(data.table[i][2])>>]]

\* json.load of a written file
JsonLoad(bytes) ==
    [domain |-> bytes.domain,
     meta   |-> bytes.meta,
     table  |-> [i \in 1..Len(bytes.table) |->
                    <<JsonUnescape(bytes.table[i][1]), JsonUnescape(bytes.table[i][2])>>]]

(***************************************************************************)
(* File names.                                                             *)
(***************************************************************************)
\* 'autoblogger-vi_VN-' of the f-string and of the glob pattern
JsonPrefix == <<"a", "u", "t", "o", "b", "l", "o", "g", "g", "e", "r", "-", "v", "i", "_", "V", "N", "-">>

\* '.json'
JsonSuffix == <<".", "j", "s", "o", "n">>

\* basename of po_file
PoName == <<"a", "u", "t", "o", "b", "l", "o", "g", "g", "e", "r", "-", "v", "i", ".", "p", "o">>

\* os.path.basename(f"languages/autoblogger-vi_VN-{hash_val}.json")
JsonFileName(hash) == JsonPrefix \o hash \o JsonSuffix

\* the basename matches autoblogger-vi_VN-*.json
GlobMatch(name) ==
    /\ Len(name) >= Len(JsonPrefix) + Len(JsonSuffix)
    /\ StartsWith(name, JsonPrefix)
    /\ EndsWith(name, JsonSuffix)

\* builds.items(), in insertion order
Builds == <<"admin", "editor">>

(***************************************************************************)
(* State.                                                                  *)
(***************************************************************************)
VARIABLES
    admin,          \* assets/js/admin/build/index.asset.php: [exists, content]
    editor,         \* assets/js/editor/build/index.asset.php: [exists, content]
    po,             \* languages/autoblogger-vi.po: [exists, content], content a sequence of lines
    languages,      \* the other files of languages/: basename -> bytes
    pc,             \* position of the script
    exit_code,      \* -1 while the script runs, then the exit status of the process
    build_hash,     \* build_hash
    translations,   \* translations, a dict in insertion order
    current_msgid,  \* current_msgid
    current_msgstr, \* current_msgstr
    in_msgid,       \* in_msgid
    in_msgstr,      \* in_msgstr
    ln,             \* index of the next line of the .po file the loop reads
    json_data,      \* json_data
    target,         \* index in Builds of the next build the emit loop handles
    hash_val,       \* hash_val
    created_files,  \* created_files
    removed,        \* basenames unlinked by the clean-up of this run
    run,            \* number of the current run of the script
    dir0,           \* languages as it was when the current run started
    prev_created    \* the basenames the previous run wrote

files == <<admin, editor, po, languages>>
parser == <<translations, current_msgid, current_msgstr, in_msgid, in_msgstr, ln>>
locals == <<build_hash, json_data, target, hash_val, created_files, removed>>
history == <<run, dir0, prev_created>>
vars == <<files, pc, exit_code, parser, locals, history>>

(***************************************************************************)
(* Inputs: the files the script can find.                                  *)
(***************************************************************************)
NoFile == [exists |-> FALSE, content |-> <<>>]

File(c) == [exists |-> TRUE, content |-> c]

\* the hexadecimal digits in the order abcdef0123456789
HexCycle == <<"a", "b", "c", "d", "e", "f", "0", "1", "2", "3", "4", "5", "6", "7", "8", "9">>

\* a version token of n hexadecimal characters
Token(n) == [i \in 1..n |-> HexCycle[((i - 1) % Len(HexCycle)) + 1]]

\* token lengths: shorter than, equal to and longer than the truncation
TokenLens == {1, 20} \cup (30..MaxTokenLen)

ManifestPre == <<"<", "?", "p", "h", "p", " ", "r", "e", "t", "u", "r", "n", " ", "a", "r", "r", "a", "y", "(">>

ManifestPost == <<")", ";">>

\* a manifest whose only version assignment carries tok
GoodManifest(tok) == ManifestPre \o VersionKey \o tok \o <<"'">> \o ManifestPost

\* a manifest without a version assignment
NoVersionManifest == ManifestPre \o ManifestPost

\* 'version' => 'abcdef0123456789abcdef0123456789extra'
ExtraManifest == VersionKey \o Token(32) \o <<"e", "x", "t", "r", "a", "'">>

\* 'version' => ''
EmptyTokenManifest == ManifestPre \o VersionKey \o <<"'">> \o ManifestPost

\* two assignments: re.search returns the leftmost
TwoVersionsManifest == GoodManifest(Token(20)) \o GoodManifest(Token(1))

\* an assignment that does not match followed by one that does
LateVersionManifest == ExtraManifest \o GoodManifest(Token(33))

Manifests ==
    {NoFile} \cup {File(GoodManifest(Token(n))) : n \in TokenLens}
    \cup {File(NoVersionManifest), File(ExtraManifest), File(EmptyTokenManifest),
          File(TwoVersionsManifest), File(LateVersionManifest)}

\* lines a generated translation source is made of
PoLineMenu ==
    {<<"m", "s", "g", "i", "d", " ", "\"", "A", "\"">>,
     <<"m", "s", "g", "s", "t", "r", " ", "\"", "x", "\"">>,
     <<" ">>,
     <<"m", "s", "g", "s", "t", "r", " ", "\"", "\"">>,
     <<" ", "\"", "b", "\"">>,
     <<"m", "s", "g", "s", "t", "r", " ", "\"", "y", "\\", "\"", "\"">>}

\* msgid "Hello" / msgstr "Xin chào" / blank / msgid "Empty" / msgstr ""
ScenarioPo ==
    <<<<"m", "s", "g", "i", "d", " ", "\"", "H", "e", "l", "l", "o", "\"">>,
      <<"m", "s", "g", "s", "t", "r", " ", "\"", "X", "i", "n", " ", "c", "h", "à", "o", "\"">>,
      <<>>,
      <<"m", "s", "g", "i", "d", " ", "\"", "E", "m", "p", "t", "y", "\"">>,
      <<"m", "s", "g", "s", "t", "r", " ", "\"", "\"">>>>

\* a source with the gettext header entry, a comment and a multi-line value
HeaderPo ==
    <<<<"m", "s", "g", "i", "d", " ", "\"", "\"">>,
      <<"m", "s", "g", "s", "t", "r", " ", "\"", "\"">>,
      <<"\"", "L", "a", "n", "g", "u", "a", "g", "e", ":", " ", "v", "i", "\\", "n", "\"">>,
      <<>>,
      <<"#", ":", " ", "a", ".", "j", "s", ":", "1">>,
      <<"m", "s", "g", "i", "d", " ", "\"", "H", "i", "\"">>,
      <<"m", "s", "g", "s", "t", "r", " ", "\"", "\"">>,
      <<"\"", "C", "h", "à", "o", "\"">>>>

GeneratedPo == UNION {[1..n -> PoLineMenu] : n \in 0..MaxPoLines}

\* basenames that can be in languages/ before the first run
OldFile == JsonPrefix \o <<"o", "l", "d", "h", "a", "s", "h">> \o JsonSuffix

EmptyStarFile == JsonPrefix \o JsonSuffix

CurrentFile == JsonPrefix \o Token(32) \o JsonSuffix

NoDashFile == <<"a", "u", "t", "o", "b", "l", "o", "g", "g", "e", "r", "-", "v", "i", "_", "V", "N", ".", "j", "s", "o", "n">>

BackupFile == JsonPrefix \o <<"a", "b", ".", "j", "s", "o", "n", ".", "b", "a", "k">>

InitialNames == {OldFile, EmptyStarFile, CurrentFile, NoDashFile, BackupFile}

\* the bytes of a file left by an earlier build
StaleBytes ==
    [domain |-> Domain,
     meta   |-> [domain |-> Domain, lang |-> Lang],
     table  |-> << <<<<"o">>, <<"l", "d">>>> >>]

Directory(names) == [n \in names |-> StaleBytes]

EmptyJsonData == [domain |-> Domain, meta |-> [domain |-> Domain, lang |-> Lang], table |-> <<>>]

\* the script's variables before its first statement
Fresh ==
    /\ pc = "check_asset"
    /\ exit_code = -1
    /\ build_hash = <<>>
    /\ translations = <<>>
    /\ current_msgid = <<>>
    /\ current_msgstr = <<>>
    /\ in_msgid = FALSE
    /\ in_msgstr = FALSE
    /\ ln = 1
    /\ json_data = EmptyJsonData
    /\ target = 1
    /\ hash_val = <<>>
    /\ created_files = <<>>
    /\ removed = {}

\* every pair of manifests, with one translation source and one stale file
InitManifests ==
    /\ admin \in Manifests
    /\ editor \in Manifests
    /\ po = File(ScenarioPo)
    /\ languages = Directory({OldFile})

\* every translation source, with one manifest
InitSources ==
    /\ admin = File(GoodManifest(Token(32)))
    /\ editor = NoFile
    /\ po \in {File(c) : c \in GeneratedPo \cup {ScenarioPo, HeaderPo}}
    /\ languages = Directory({OldFile})

\* every content of languages/, with present, absent and unusable inputs
InitDirectories ==
    /\ admin \in {NoFile, File(GoodManifest(Token(32))), File(NoVersionManifest)}
    /\ editor \in {NoFile, File(GoodManifest(Token(33))), File(GoodManifest(Token(20))),
                   File(NoVersionManifest)}
    /\ po \in {NoFile, File(ScenarioPo)}
    /\ languages \in {Directory(names) : names \in SUBSET InitialNames}

Init ==
    /\ InitManifests \/ InitSources \/ InitDirectories
    /\ Fresh
    /\ run = 1
    /\ dir0 = languages
    /\ prev_created = {}

(***************************************************************************)
(* File system helpers.                                                    *)
(***************************************************************************)
\* the manifest at builds[name]
AssetOf(name) == IF name = "admin" THEN admin ELSE editor

\* open(json_file, 'w') and json.dump: the file is created or overwritten
WriteFile(dir, name, bytes) ==
    [n \in DOMAIN dir \cup {name} |-> IF n = name THEN bytes ELSE dir[n]]

\* OldFiles with os.listdir('languages') in place of the glob
OldFilesAll(dir, source) ==
    DOMAIN dir \cup (IF source.exists THEN {PoName} ELSE {})

\* glob.glob('languages/autoblogger-vi_VN-*.json'), as basenames
OldFiles(dir, source) ==
    {n \in DOMAIN dir \cup (IF source.exists THEN {PoName} ELSE {}) : GlobMatch(n)}

\* Stale with the test inverted: if filename in created_files
StaleCreated(dir, source, created) ==
    {n \in OldFiles(dir, source) : n \in Range(created)}

\* Stale with the path, not the basename, looked up in created_files
StaleByPath(dir, source, created) == OldFiles(dir, source)

\* the files the clean-up loop unlinks
Stale(dir, source, created) ==
    {n \in OldFiles(dir, source) : n \notin Range(created)}

(***************************************************************************)
(* The script, statement by statement.                                     *)
(***************************************************************************)
\* Fatal with exit() in place of exit(1)
FatalZero ==
    /\ pc' = "done"
    /\ exit_code' = 0

\* exit(1): nothing has been written or removed
Fatal ==
    /\ pc' = "done"
    /\ exit_code' = 1

\* if not os.path.exists(asset_file): exit(1)
CheckAssetFile ==
    /\ pc = "check_asset"
    /\ IF admin.exists
       THEN pc' = "extract" /\ UNCHANGED exit_code
       ELSE Fatal
    /\ UNCHANGED <<files, parser, locals, history>>

\* build_hash = match.group(1)[:32], or exit(1) without a match
ExtractBuildHash ==
    /\ pc = "extract"
    /\ IF HasVersion(admin.content)
       THEN /\ build_hash' = ExtractHash(admin.content)
            /\ pc' = "check_po"
            /\ UNCHANGED exit_code
       ELSE /\ Fatal
            /\ UNCHANGED build_hash
    /\ UNCHANGED <<files, parser, json_data, target, hash_val, created_files, removed, history>>

\* CheckPoFile with the clean-up loop run before the exit(1)
CheckPoFileUnlinking ==
    /\ pc = "check_po"
    /\ IF po.exists
       THEN pc' = "parse" /\ UNCHANGED <<exit_code, languages, removed>>
       ELSE /\ Fatal
            /\ removed' = Stale(languages, po, created_files)
            /\ languages' = [n \in DOMAIN languages \ removed' |-> languages[n]]
    /\ UNCHANGED <<admin, editor, po, parser, build_hash, json_data, target, hash_val,
                   created_files, history>>

\* if not os.path.exists(po_file): exit(1)
CheckPoFile ==
    /\ pc = "check_po"
    /\ IF po.exists
       THEN pc' = "parse" /\ UNCHANGED exit_code
       ELSE Fatal
    /\ UNCHANGED <<files, parser, locals, history>>

\* one iteration of: for line in f
ParseLine ==
    /\ pc = "parse"
    /\ ln <= Len(po.content)
    /\ LET st == [translations   |-> translations,
                  current_msgid  |-> current_msgid,
                  current_msgstr |-> current_msgstr,
                  in_msgid       |-> in_msgid,
                  in_msgstr      |-> in_msgstr]
           nx == ParseStep(st, po.content[ln])
       IN  /\ translations' = nx.translations
           /\ current_msgid' = nx.current_msgid
           /\ current_msgstr' = nx.current_msgstr
           /\ in_msgid' = nx.in_msgid
           /\ in_msgstr' = nx.in_msgstr
    /\ ln' = ln + 1
    /\ UNCHANGED <<files, pc, exit_code, locals, history>>

\* end of the file: save the last translation, remove the empty ones and
\* build json_data
FinishParse ==
    /\ pc = "parse"
    /\ ln > Len(po.content)
    /\ translations' = RemoveEmpty(Flush(translations, current_msgid, current_msgstr))
    /\ json_data' = MakeJsonData(translations')
    /\ created_files' = <<>>
    /\ target' = 1
    /\ pc' = "emit"
    /\ UNCHANGED <<files, exit_code, current_msgid, current_msgstr, in_msgid, in_msgstr, ln,
                   build_hash, hash_val, removed, history>>

\* one iteration of: for name, asset_path in builds.items()
EmitTarget ==
    /\ pc = "emit"
    /\ target <= Len(Builds)
    /\ LET asset == AssetOf(Builds[target])
       IN  IF asset.exists /\ HasVersion(asset.content)
           THEN /\ hash_val' = ExtractHash(asset.content)
                /\ languages' = WriteFile(languages, JsonFileName(hash_val'), JsonDump(json_data))
                /\ created_files' = Append(created_files, JsonFileName(hash_val'))
           ELSE UNCHANGED <<hash_val, languages, created_files>>
    /\ target' = target + 1
    /\ UNCHANGED <<admin, editor, po, pc, exit_code, parser, build_hash, json_data, removed,
                   history>>

\* the clean-up loop, then the end of the script
CleanUp ==
    /\ pc = "emit"
    /\ target > Len(Builds)
    /\ LET gone == Stale(languages, po, created_files)
       IN  /\ languages' = [n \in DOMAIN languages \ gone |-> languages[n]]
           /\ po' = IF PoName \in gone THEN NoFile ELSE po
           /\ removed' = gone
    /\ pc' = "done"
    /\ exit_code' = 0
    /\ UNCHANGED <<admin, editor, parser, build_hash, json_data, target, hash_val,
                   created_files, history>>

\* the script is started again on the files the previous run left
Rerun ==
    /\ pc = "done"
    /\ run < MaxRuns
    /\ run' = run + 1
    /\ dir0' = languages
    /\ prev_created' = Range(created_files)
    /\ pc' = "check_asset"
    /\ exit_code' = -1
    /\ build_hash' = <<>>
    /\ translations' = <<>>
    /\ current_msgid' = <<>>
    /\ current_msgstr' = <<>>
    /\ in_msgid' = FALSE
    /\ in_msgstr' = FALSE
    /\ ln' = 1
    /\ json_data' = EmptyJsonData
    /\ target' = 1
    /\ hash_val' = <<>>
    /\ created_files' = <<>>
    /\ removed' = {}
    /\ UNCHANGED files

Next ==
    \/ CheckAssetFile
    \/ ExtractBuildHash
    \/ CheckPoFile
    \/ ParseLine
    \/ FinishParse
    \/ EmitTarget
    \/ CleanUp
    \/ Rerun

Spec == Init /\ [][Next]_vars

TypeOK ==
    /\ pc \in {"check_asset", "extract", "check_po", "parse", "emit", "done"}
    /\ exit_code \in {-1, 0, 1}
    /\ run \in 1..MaxRuns

(***************************************************************************)
(* Properties.                                                             *)
(***************************************************************************)
\* the run is past the extraction of build_hash and has not failed
Proceeds == pc \in {"check_po", "parse", "emit"} \/ (pc = "done" /\ exit_code = 0)

\* the manifests of the inputs that match the pattern, each with the token
\* the leftmost match captures
MatchedTokens ==
    {<<GoodManifest(Token(n)), Token(n)>> : n \in TokenLens}
    \cup {<<TwoVersionsManifest, Token(20)>>, <<LateVersionManifest, Token(33)>>}

\* the first 32 characters of a token, the whole token when it is shorter
First32(tok) == IF Len(tok) >= 32 THEN SubSeq(tok, 1, 32) ELSE tok

\* C1: for every manifest that matches the version pattern, build_hash (the
\* primary check) and hash_val (each target of the emit loop) are the first 32
\* characters of the matched token, or the whole token when it is shorter.
C1_HashIsFirst32 ==
    \A mt \in MatchedTokens :
        /\ (admin = File(mt[1]) /\ Proceeds) => build_hash = First32(mt[2])
        /\ (pc = "emit" /\ target > 1 /\ AssetOf(Builds[target - 1]) = File(mt[1]))
               => /\ hash_val = First32(mt[2])
                  /\ created_files[Len(created_files)] = JsonPrefix \o First32(mt[2]) \o JsonSuffix

\* C1 witness: a token longer than 32 characters was truncated for the admin
\* build and a shorter one was kept whole for the editor build
C1_Witness ==
    /\ pc = "emit" /\ target > Len(Builds)
    /\ admin = File(GoodManifest(Token(MaxTokenLen)))
    /\ editor = File(GoodManifest(Token(20)))
    /\ Len(build_hash) = 32
    /\ Len(hash_val) = 20

\* C2 as stated: the manifest 'version' => 'abcdef0123456789abcdef0123456789extra'
\* yields the hash abcdef0123456789abcdef0123456789 and the run proceeds with it.
C2_Original ==
    (admin = File(ExtraManifest) /\ pc \notin {"check_asset", "extract"})
        => (build_hash = Token(32) /\ exit_code # 1)

\* C2 amended: the token ...extra holds the characters x, t, r outside [a-f0-9],
\* so the pattern does not match, no hash is extracted and the run exits with
\* code 1; the same 32 characters followed by hexadecimal characters yield the
\* hash abcdef0123456789abcdef0123456789 and the run proceeds with it.
C2_ExtraIsNotHex ==
    /\ (admin = File(ExtraManifest) /\ pc \notin {"check_asset", "extract"})
           => (pc = "done" /\ exit_code = 1 /\ build_hash = <<>>)
    /\ (admin = File(GoodManifest(Token(34))) /\ pc \notin {"check_asset", "extract"})
           => (build_hash = Token(32) /\ exit_code # 1)

\* C2 witness: the run on the ...extra manifest has ended with exit code 1
C2_Witness ==
    /\ admin = File(ExtraManifest)
    /\ pc = "done"
    /\ exit_code = 1

\* the values of a dict
Values(d) == {d[i][2] : i \in 1..Len(d)}

\* C3: no entry with an empty translated value is in the translation table, in
\* json_data or in a written locale document, and the source msgid "Hello" /
\* msgstr "Xin chào" / blank / msgid "Empty" / msgstr "" yields exactly the
\* table {Hello: Xin chào}.
C3_NoEmptyValue ==
    /\ <<>> \notin Values(translations)
    /\ <<>> \notin Values(json_data.table)
    /\ \A n \in Range(created_files) : <<>> \notin Values(JsonLoad(languages[n]).table)
    /\ (po = File(ScenarioPo) /\ (pc = "emit" \/ (pc = "done" /\ exit_code = 0)))
           => translations = << <<<<"H", "e", "l", "l", "o">>, <<"X", "i", "n", " ", "c", "h", "à", "o">>>> >>

\* C3 witness: the scenario source was parsed and its document written
C3_Witness ==
    /\ po = File(ScenarioPo)
    /\ pc = "done" /\ exit_code = 0
    /\ created_files # <<>>
    /\ Len(JsonLoad(languages[created_files[1]]).table) = 1

\* the text between the outer quotes of a line: marker "text"
Quoted(line, marker) == SubSeq(line, Len(marker) + 2, Len(line) - 1)

\* line is: marker "text" with a non-empty text
IsEntryLine(line, marker) ==
    /\ Len(line) >= Len(marker) + 3
    /\ StartsWith(line, marker)
    /\ line[Len(marker) + 1] = "\""
    /\ line[Len(line)] = "\""

\* the (key, value) pairs of the source: a msgid line followed by a msgstr
\* line that no continuation line extends
SourceEntries(lines) ==
    {<<Quoted(lines[i], MsgidMarker), Quoted(lines[i + 1], MsgstrMarker)>> :
        i \in {j \in 1..(Len(lines) - 1) :
                 /\ IsEntryLine(lines[j], MsgidMarker)
                 /\ IsEntryLine(lines[j + 1], MsgstrMarker)
                 /\ (j + 2 <= Len(lines) =>
                        LineKind(Strip(lines[j + 2], Whitespace)) # "continuation")}}

\* C4: every entry of the source with a non-empty key and a non-empty value is
\* found, with the same key and value, in the table read back from each
\* written JSON file.
C4_RoundTrip ==
    (pc = "done" /\ exit_code = 0) =>
        \A n \in Range(created_files) :
            \A e \in SourceEntries(po.content) :
                LET doc == JsonLoad(languages[n]).table
                IN  e[1] \in Keys(doc) /\ Lookup(doc, e[1]) = e[2]

\* C5: a second run on unchanged inputs writes the same file names with the
\* same bytes as the first run and unlinks nothing.
C5_Idempotent ==
    (run >= 2 /\ pc = "done") =>
        /\ Range(created_files) = prev_created
        /\ \A n \in prev_created : n \in DOMAIN languages /\ languages[n] = dir0[n]
        /\ removed = {}
        /\ languages = dir0

\* C5 witness: a second run that wrote two files has ended
C5_Witness ==
    /\ run = 2 /\ pc = "done" /\ exit_code = 0
    /\ Cardinality(Range(created_files)) = 2
    /\ removed = {}

\* the names the runs can meet
KnownNames == DOMAIN languages \cup DOMAIN dir0 \cup Range(created_files) \cup InitialNames

\* C6: after a run that reaches the clean-up, a file matching
\* autoblogger-vi_VN-*.json exists exactly when this run wrote it; when the
\* directory held only the old file and the run wrote one file, that file is
\* the only one left.
C6_OnlyWrittenRemain ==
    (pc = "done" /\ exit_code = 0) =>
        /\ \A n \in KnownNames :
               GlobMatch(n) => (n \in DOMAIN languages <=> n \in Range(created_files))
        /\ removed = {n \in DOMAIN dir0 : GlobMatch(n) /\ n \notin Range(created_files)}
        /\ (DOMAIN dir0 = {OldFile} /\ Cardinality(Range(created_files)) = 1)
               => DOMAIN languages = Range(created_files)

\* C6 witness: the old file was unlinked and the new one is the only file
C6_Witness ==
    /\ pc = "done" /\ exit_code = 0
    /\ DOMAIN dir0 = {OldFile}
    /\ removed = {OldFile}
    /\ DOMAIN languages = {JsonFileName(Token(32))}

\* C7: no step changes the manifests, the translation source or a file whose
\* name does not match autoblogger-vi_VN-*.json, and a clean-up that finds no
\* stale file unlinks nothing.
C7_Frame ==
    [][/\ admin' = admin
       /\ editor' = editor
       /\ po' = po
       /\ \A n \in DOMAIN languages :
              ~GlobMatch(n) => (n \in DOMAIN languages' /\ languages'[n] = languages[n])
       /\ (/\ pc = "emit" /\ pc' = "done"
           /\ \A n \in DOMAIN languages : GlobMatch(n) => n \in Range(created_files))
              => (languages' = languages /\ removed' = {})]_vars

\* C7 witness: a clean-up unlinked a stale file next to files outside the
\* naming convention
C7_Witness ==
    /\ pc = "done" /\ exit_code = 0
    /\ removed # {}
    /\ po.exists
    /\ {NoDashFile, BackupFile} \subseteq DOMAIN languages

\* the manifest contents of the inputs from which a version can be extracted
UsableManifests == {mt[1] : mt \in MatchedTokens}

Usable(asset) == asset.exists /\ asset.content \in UsableManifests

\* C8: the exit code is 1 exactly when the admin manifest is missing or has no
\* version, or the translation source is missing, and 0 otherwise; an editor
\* manifest that is missing or has no version is skipped and the admin file is
\* still written.
C8_ExitCode ==
    pc = "done" =>
        /\ exit_code \in {0, 1}
        /\ exit_code = 1 <=> (~Usable(admin) \/ ~po.exists)
        /\ (exit_code = 0 /\ ~Usable(editor))
               => /\ created_files = <<JsonPrefix \o build_hash \o JsonSuffix>>
                  /\ created_files[1] \in DOMAIN languages

\* C8 witness: the editor manifest is missing and the run ended with exit code
\* 0 after writing the admin file
C8_Witness ==
    /\ pc = "done" /\ exit_code = 0
    /\ ~editor.exists
    /\ Len(created_files) = 1

\* C9: in_msgid and in_msgstr are never both true, and a line that starts with
\* a quote appends its unquoted content to the key in accumulating-key, to the
\* value in accumulating-value and to neither in idle.
C9_ParserStates ==
    /\ [](~(in_msgid /\ in_msgstr))
    /\ [][(pc = "parse" /\ ln' = ln + 1) =>
            LET line == Strip(po.content[ln], Whitespace)
                text == Strip(line, QuoteChars)
            IN  (line # <<>> /\ line[1] = "\"") =>
                    /\ in_msgid' = in_msgid /\ in_msgstr' = in_msgstr
                    /\ translations' = translations
                    /\ current_msgid' = IF in_msgid THEN current_msgid \o text
                                        ELSE current_msgid
                    /\ current_msgstr' = IF in_msgstr THEN current_msgstr \o text
                                         ELSE current_msgstr]_vars

\* C9 witness: a quoted line was read in idle, before the first msgid, and
\* both accumulators are still empty
C9_Witness ==
    /\ pc = "parse" /\ ln = 2
    /\ po.content[1] = <<" ", "\"", "b", "\"">>
    /\ ~in_msgid /\ ~in_msgstr
    /\ current_msgid = <<>> /\ current_msgstr = <<>>

\* C10: a run that ends with exit code 1 has created, overwritten and unlinked
\* nothing under languages/.
C10_FatalBeforeEffects ==
    (pc = "done" /\ exit_code = 1) =>
        /\ languages = dir0
        /\ created_files = <<>>
        /\ removed = {}

\* C10 witness: the translation source is missing, the run ended with exit
\* code 1 and the old generated file is still there
C10_Witness ==
    /\ pc = "done" /\ exit_code = 1
    /\ admin.exists /\ ~po.exists
    /\ OldFile \in DOMAIN languages

====
